---- MODULE Spec2Model ----
(***************************************************************************)
(* IGS036 program-ROM decryption (src/src/mame/machine/igs036crypt.cpp).   *)
(*                                                                         *)
(* The decryptor is modelled as a state machine: its key binding and the   *)
(* static tables are state, every member function is an operator computed  *)
(* the way the C++ computes it (int arithmetic, uint16_t truncation on     *)
(* return), and every entry point is an action.                            *)
(***************************************************************************)
EXTENDS Integers, Sequences, FiniteSets, TLC

VARIABLES
    key,            \* const uint16_t* key: the 256-entry table bound at construction
    triggers,       \* static const uint16_t triggers[16][2]
    rot_enabling,   \* static int (*rot_enabling[16][4])(int)
    rot_direction,  \* static int (*rot_direction[4][8])(int)
    call,           \* the current call of a member function: its arguments and, once done, its return value
    first,          \* the first decrypt call completed on this decryptor, and what followed it (history)
    pc,             \* "idle"; "rom" inside the loop of decrypter_rom; "par"/"done" for the parallel map
    rom,            \* the region's words (rom[i+1] is the C++ rom[i])
    rom0,           \* the region as it was when decrypter_rom was entered (history)
    size,           \* int size = region->bytes()
    i,              \* loop variable of decrypter_rom
    hits,           \* hits[k+1]: how many times the loop has written rom[k] (history)
    pending,        \* parallel map: indices no worker has taken yet
    wk,             \* parallel map: per worker, its position and the index/word it holds
    written         \* parallel map: the indices in the order their slots were written (history)

vars == <<key, triggers, rot_enabling, rot_direction, call, first,
          pc, rom, rom0, size, i, hits, pending, wk, written>>

----------------------------------------------------------------------------
(* Machine arithmetic *)

Word16 == 65536

\* BIT(x,n) of emu.h: bit n of a non-negative value
BIT(x, n) == (x \div (2^n)) % 2

RECURSIVE BitXor(_, _)
\* x ^ y on non-negative ints
BitXor(x, y) ==
    IF x = 0 THEN y
    ELSE IF y = 0 THEN x
    ELSE (((x % 2) + (y % 2)) % 2) + 2 * BitXor(x \div 2, y \div 2)

RECURSIVE BitOr(_, _)
\* x | y on non-negative ints
BitOr(x, y) ==
    IF x = 0 THEN y
    ELSE IF y = 0 THEN x
    ELSE (IF (x % 2) + (y % 2) > 0 THEN 1 ELSE 0) + 2 * BitOr(x \div 2, y \div 2)

RECURSIVE BitAndNat(_, _)
BitAndNat(x, y) ==
    IF x = 0 \/ y = 0 THEN 0
    ELSE ((x % 2) * (y % 2)) + 2 * BitAndNat(x \div 2, y \div 2)

\* The low 31 bits of the two's complement representation of a 32-bit int.
TwosComplement31(x) == IF x < 0 THEN (x + 2^30) + 2^30 ELSE x

\* x & m for an int x (possibly negative) and a non-negative mask m < 2^31
BitAnd(x, m) == BitAndNat(TwosComplement31(x), m)

\* conversion of a non-negative int to uint16_t
ToU16(x) == x % Word16

----------------------------------------------------------------------------
(* The boolean function set (lines 188-202) *)

\* mutant: the stub of the two unverified rows enables instead of disabling
unknown_one(address) == 1

unknown(address) == 0
cZero(address)   == 0
cOne(address)    == 1
bit_3(address)   == BIT(address, 3)
bit_4(address)   == BIT(address, 4)
bit_7(address)   == BIT(address, 7)
not_3(address)   == BitXor(BIT(address, 3), 1)
not_4(address)   == BitXor(BIT(address, 4), 1)
not_7(address)   == BitXor(BIT(address, 7), 1)
xor_37(address)  == BitXor(BIT(address, 3), BIT(address, 7))
xnor_37(address) == BitXor(BitXor(BIT(address, 3), BIT(address, 7)), 1)
xor_47(address)  == BitXor(BIT(address, 4), BIT(address, 7))
xnor_47(address) == BitXor(BitXor(BIT(address, 4), BIT(address, 7)), 1)
nor_34(address)  == BitXor(BitOr(BIT(address, 3), BIT(address, 4)), 1)
impl_43(address) ==
    IF BIT(address, 3) # 0 \/ BitXor(BIT(address, 4), 1) # 0 THEN 1 ELSE 0

\* A call through a function pointer: the tables hold the functions by name.
CallFn(f, address) ==
    CASE f = "unknown" -> unknown(address)
      [] f = "cZero"   -> cZero(address)
      [] f = "cOne"    -> cOne(address)
      [] f = "bit_3"   -> bit_3(address)
      [] f = "bit_4"   -> bit_4(address)
      [] f = "bit_7"   -> bit_7(address)
      [] f = "not_3"   -> not_3(address)
      [] f = "not_4"   -> not_4(address)
      [] f = "not_7"   -> not_7(address)
      [] f = "xor_37"  -> xor_37(address)
      [] f = "xnor_37" -> xnor_37(address)
      [] f = "xor_47"  -> xor_47(address)
      [] f = "xnor_47" -> xnor_47(address)
      [] f = "nor_34"  -> nor_34(address)
      [] f = "impl_43" -> impl_43(address)

----------------------------------------------------------------------------
(* The static tables as the translation unit initialises them *)

\* triggers[i] = <<mask, match>> (lines 169-174)
triggers_init ==
    << <<1, 0>>,      <<8, 8>>,        <<2, 0>>,         <<4, 4>>,
       <<256, 0>>,    <<512, 0>>,      <<1024, 0>>,      <<2048, 2048>>,
       <<4097, 1>>,   <<8194, 8192>>,  <<16388, 16384>>, <<32776, 0>>,
       <<16, 16>>,    <<32, 32>>,      <<64, 0>>,        <<129, 129>> >>

\* lines 205-222
rot_enabling_init ==
    << <<"bit_3",   "not_3",   "bit_3",   "not_3">>,
       <<"bit_3",   "not_3",   "bit_3",   "not_3">>,
       <<"bit_4",   "bit_4",   "bit_4",   "bit_4">>,
       <<"bit_4",   "not_4",   "bit_4",   "not_4">>,
       <<"bit_3",   "bit_3",   "bit_3",   "bit_3">>,
       <<"nor_34",  "bit_7",   "bit_7",   "cZero">>,
       <<"cZero",   "cOne",    "cZero",   "cOne">>,
       <<"impl_43", "xor_37",  "xnor_37", "not_3">>,
       <<"bit_3",   "bit_3",   "not_3",   "not_3">>,
       <<"bit_4",   "bit_4",   "not_4",   "not_4">>,
       <<"cZero",   "cZero",   "cZero",   "cZero">>,
       <<"nor_34",  "bit_7",   "not_7",   "cOne">>,
       <<"bit_3",   "not_3",   "bit_3",   "not_3">>,
       <<"cZero",   "cOne",    "cOne",    "cZero">>,
       <<"unknown", "unknown", "unknown", "unknown">>,
       <<"unknown", "unknown", "unknown", "unknown">> >>

\* lines 224-229
rot_direction_init ==
    << <<"bit_3", "xor_37", "xnor_37", "not_3", "bit_3", "xor_37", "xnor_37", "not_3">>,
       <<"cZero", "not_7",  "not_7",   "cZero", "cZero", "not_7",  "not_7",   "cZero">>,
       <<"bit_4", "xor_47", "xnor_47", "not_4", "bit_4", "xor_47", "xnor_47", "not_4">>,
       <<"bit_3", "not_7",  "bit_7",   "cZero", "cOne",  "not_7",  "bit_7",   "cZero">> >>

----------------------------------------------------------------------------
(* igs036_decryptor's member functions *)

\* mutant: a plain left shift, the bits shifted out are lost
rol_shift_only(num, shift) == ToU16(num * (2^shift))

\* uint16_t rol(uint16_t num, int shift): num is promoted to int, each half is
\* truncated to uint16_t when it is stored, and so is the returned r|l.
rol_lshift(shift) == shift
\* mutant: the right shift count is off by one
rol_rshift_17(shift) == 17 - shift
rol_rshift(shift) == 16 - shift
rol(num, shift) ==
    LET r == ToU16(num * (2^rol_lshift(shift)))
        l == ToU16(num \div (2^rol_rshift(shift)))
    IN  ToU16(BitOr(r, l))

\* the indices rot_enabled uses for the group member pos
rot_enabled_aux(address) == BitXor(address, 27 * BIT(address, 2))
rot_enabling_index(address, pos) == <<pos, BitAnd(rot_enabled_aux(address), 3)>>

RECURSIVE rot_enabled_loop(_, _, _)
\* the for loop of rot_enabled from j on: the first set bit decides, then break
rot_enabled_loop(address, group, j) ==
    IF j >= 4 THEN 0
    ELSE IF BIT(address, 8 + group[j + 1]) # 0
         THEN LET aux == rot_enabled_aux(address)
                  ix  == rot_enabling_index(address, group[j + 1])
              IN  CallFn(rot_enabling[ix[1] + 1][ix[2] + 1], aux)
         ELSE rot_enabled_loop(address, group, j + 1)

RECURSIVE rot_enabled_nobreak(_, _, _, _)
\* mutant: the loop without its break, so the last set bit of the group decides
rot_enabled_nobreak(address, group, j, enabled) ==
    IF j >= 4 THEN enabled
    ELSE IF BIT(address, 8 + group[j + 1]) # 0
         THEN LET aux == rot_enabled_aux(address)
                  ix  == rot_enabling_index(address, group[j + 1])
              IN  rot_enabled_nobreak(address, group, j + 1,
                                      CallFn(rot_enabling[ix[1] + 1][ix[2] + 1], aux))
         ELSE rot_enabled_nobreak(address, group, j + 1, enabled)
rot_enabled_last(address, group) == rot_enabled_nobreak(address, group, 0, 0)

rot_enabled(address, group) == rot_enabled_loop(address, group, 0)

\* mutant: the row is taken from the last member of the group instead of the first
rot_direction_index_last(address, group) == <<BitAnd(group[4], 3), BitAnd(address, 7)>>

rot_direction_index(address, group) == <<BitAnd(group[1], 3), BitAnd(address, 7)>>

rot_group(address, group) ==
    LET ix  == rot_direction_index(address, group)
        aux == CallFn(rot_direction[ix[1] + 1][ix[2] + 1], address)
    IN  (aux * 2) - 1

group15 == <<15, 11, 7, 5>>
group14 == <<14, 9, 3, 2>>
group13 == <<13, 10, 6, 1>>
group12 == <<12, 8, 4, 0>>

\* mutant: group15 does not invert the other groups' own determinations
rotation_rot_noinvert(address) ==
    rot_enabled(address, group15) * rot_group(address, group15) * 9
      + rot_enabled(address, group14) * rot_group(address, group14) * 1
      + rot_enabled(address, group13) * rot_group(address, group13) * 2
      + rot_enabled(address, group12) * rot_group(address, group12) * 4

\* "rotation depending on all the address bits": the value of rot at line 125
rotation_rot(address) ==
    LET enabled0 == rot_enabled(address, group15)
        rot0     == enabled0 * rot_group(address, group15) * 9
        enabled1 == BitXor(enabled0, rot_enabled(address, group14))
        rot1     == rot0 + enabled1 * rot_group(address, group14) * 1
        enabled2 == BitXor(enabled0, rot_enabled(address, group13))
        rot2     == rot1 + enabled2 * rot_group(address, group13) * 2
        enabled3 == BitXor(enabled0, rot_enabled(address, group12))
    IN  rot2 + enabled3 * rot_group(address, group12) * 4

\* "block-independent rotation": the value of rot2 at line 132
\* mutant: the block contribution reads address bit 5 where the code reads bit 4
rotation_rot2_bit5(address) ==
    LET b0 == BIT(address, 0)
        b1 == BIT(address, 1)
        b3 == BIT(address, 3)
        b4 == BIT(address, 5)
        b7 == BIT(address, 7)
        t1 == 4 * b0
        t2 == t1 + 1 * b4 * (b0 * 2 - 1)
        t3 == t2 + 4 * b3 * (b0 * 2 - 1)
        t4 == t3 * (BitOr(b7, BitXor(BitXor(b0, b1), 1)) * 2 - 1)
    IN  t4 + 2 * BitAndNat(BitXor(b0, b1), BitXor(b7, 1))

rotation_rot2(address) ==
    LET b0 == BIT(address, 0)
        b1 == BIT(address, 1)
        b3 == BIT(address, 3)
        b4 == BIT(address, 4)
        b7 == BIT(address, 7)
        t1 == 4 * b0
        t2 == t1 + 1 * b4 * (b0 * 2 - 1)
        t3 == t2 + 4 * b3 * (b0 * 2 - 1)
        t4 == t3 * (BitOr(b7, BitXor(BitXor(b0, b1), 1)) * 2 - 1)
    IN  t4 + 2 * BitAndNat(BitXor(b0, b1), BitXor(b7, 1))

\* mutant: the remainder operator (truncating towards zero) instead of the mask
rotation_mask_rem(x) == IF x < 0 THEN 0 - ((0 - x) % 16) ELSE x % 16

rotation_mask(x) == BitAnd(x, 15)
rotation(address) == rotation_mask(rotation_rot(address) + rotation_rot2(address))

\* BITSWAP16(val, B15, ..., B0) of emu.h: output bit 15-k is input bit bits[k+1]
RECURSIVE BITSWAP16_from(_, _, _)
BITSWAP16_from(val, bits, k) ==
    IF k >= 16 THEN 0
    ELSE BIT(val, bits[k + 1]) * (2^(15 - k)) + BITSWAP16_from(val, bits, k + 1)
BITSWAP16(val, bits) == BITSWAP16_from(val, bits, 0)

\* mutant: input bit 2 wired to two outputs, input bit 1 to none
deobfuscate_order_dup == <<10, 9, 8, 7, 0, 15, 6, 5, 14, 13, 4, 3, 12, 11, 2, 2>>

deobfuscate_order == <<10, 9, 8, 7, 0, 15, 6, 5, 14, 13, 4, 3, 12, 11, 2, 1>>

deobfuscate(cipherword, word_address) ==
    LET shift == rotation(word_address)
        aux   == rol(cipherword, shift)
    IN  ToU16(BITSWAP16(aux, deobfuscate_order))

key_index(word_address) == BitAnd(word_address, 255)

\* mutant: the trigger tests that some mask bit is set instead of comparing with match
trigger_fires_any(high, n) == BitAnd(high, triggers[n + 1][1]) # 0

\* the condition of line 89 for XOR number n, high being word_address>>8
trigger_fires(high, n) ==
    BitAnd(high, triggers[n + 1][1]) = triggers[n + 1][2]

RECURSIVE decrypt_loop(_, _, _, _)
\* the for loop of decrypt from i = n on; keyword is key[word_address&0xff] and
\* high is word_address>>8, which the loop reads anew in every iteration
decrypt_loop(aux, keyword, high, n) ==
    IF n >= 16 THEN aux
    ELSE IF BIT(keyword, n) # 0 /\ trigger_fires(high, n)
         THEN decrypt_loop(BitXor(aux, 2^n), keyword, high, n + 1)
         ELSE decrypt_loop(aux, keyword, high, n + 1)

\* mutant: the final XOR with the constant is missing
decrypt_final_none(aux) == aux

decrypt_final(aux) == BitXor(aux, 6714)

decrypt(cipherword, word_address) ==
    ToU16(decrypt_final(decrypt_loop(deobfuscate(cipherword, word_address),
                                     key[key_index(word_address) + 1],
                                     word_address \div 256, 0)))

\* mutant: the address passed is one past the index
decrypter_rom_word_next(buf, n) == decrypt(buf[n + 1], n + 1)

\* mutant: the word is chained with its predecessor in the buffer before decrypting
decrypter_rom_word_chained(buf, n) ==
    decrypt(BitXor(buf[n + 1], IF n > 0 THEN buf[n] ELSE 0), n)

\* void decrypter_rom(memory_region*): the right-hand side of line 75 for index n
decrypter_rom_word(buf, n) == decrypt(buf[n + 1], n)

\* one iteration of the loop of decrypter_rom: rom[n] = decrypt(rom[n], n)
decrypter_rom_body(buf, n) == [buf EXCEPT ![n + 1] = decrypter_rom_word(buf, n)]

\* the loop bound size / 2
decrypter_rom_count(bytes) == bytes \div 2

RECURSIVE decrypter_rom_loop(_, _, _)
\* the whole sequential pass from index n on
decrypter_rom_loop(buf, bytes, n) ==
    IF n < decrypter_rom_count(bytes)
    THEN decrypter_rom_loop(decrypter_rom_body(buf, n), bytes, n + 1)
    ELSE buf

----------------------------------------------------------------------------
(* Game keys *)

\* orleg2_key (lines 238-271)
orleg2_key ==
    <<
       33024, 37378, 12288, 4608, 256, 2048, 8448, 43781,
       4874, 47626, 776, 37376, 33542, 43791, 8204, 769,
       36880, 6931, 4880, 6929, 33028, 530, 33284, 33300,
       33538, 4369, 33536, 6937, 272, 33282, 784, 769,
       33570, 45570, 45568, 37153, 33314, 2598, 8192, 801,
       45056, 32, 37672, 14601, 8970, 35113, 33316, 8708,
       802, 39731, 768, 37649, 33056, 34832, 816, 4,
       33578, 35338, 256, 4401, 312, 2365, 33064, 2076,
       58178, 33025, 61760, 0, 24900, 8196, 33284, 16452,
       41730, 56139, 4096, 41472, 49220, 57412, 268, 516,
       4626, 56147, 53328, 52033, 16720, 49991, 17216, 257,
       21074, 55641, 4880, 49216, 49746, 51545, 17216, 35097,
       8706, 14336, 58176, 8449, 806, 8967, 17248, 33569,
       12288, 47883, 20584, 63560, 17258, 43787, 41228, 57920,
       49472, 50019, 33536, 18785, 4, 51296, 804, 0,
       53360, 33025, 53360, 4913, 260, 19054, 17224, 19064,
       41602, 45698, 512, 8704, 33152, 32896, 32896, 2048,
       4866, 39305, 8200, 8192, 41862, 2831, 33420, 41600,
       37778, 37522, 4112, 32896, 518, 33667, 33428, 2321,
       33666, 2570, 37264, 4112, 8, 2827, 32920, 35741,
       4384, 2080, 8704, 41088, 33188, 41606, 41856, 43648,
       288, 4128, 45192, 4128, 8192, 2859, 8448, 10764,
       37522, 39088, 4912, 34944, 33686, 2839, 32896, 805,
       0, 39353, 37552, 33440, 33156, 32, 816, 2072,
       57792, 43393, 53696, 53440, 24896, 16962, 49860, 25413,
       45192, 28993, 16448, 41345, 8718, 57540, 16708, 27212,
       53456, 39570, 4880, 55761, 33682, 49348, 33412, 34960,
       49344, 33410, 33408, 37008, 17218, 2570, 16960, 49621,
       45184, 45698, 49632, 37024, 41092, 19299, 33184, 60096,
       29250, 21347, 29512, 801, 554, 26953, 17248, 35496,
       33410, 771, 33152, 4913, 33698, 19283, 17252, 33713,
       4634, 32928, 4664, 0, 33466, 48, 49344, 16996 >>
\* a key that masks every XOR off, and one that masks every XOR on
zero_key == [k \in 1..256 |-> 0]
ones_key == [k \in 1..256 |-> 65535]

KeySet == {zero_key, orleg2_key, ones_key}

----------------------------------------------------------------------------
(* Bounds and input sets *)

MaxHighBits == 2      \* rotation calls: at most this many of the 16 high address bits set
MaxWords == 3         \* words in a region handed to decrypter_rom
NumWorkers == 2       \* workers of the parallel map

RECURSIVE HighWordsUpTo(_)
\* the 16-bit values with at most n bits set
HighWordsUpTo(n) ==
    IF n = 0 THEN {0}
    ELSE LET H == HighWordsUpTo(n - 1)
         IN  H \cup { h + 2^b : <<h, b>> \in { p \in H \X (0..15) : BIT(p[1], p[2]) = 0 } }

\* low address bytes over bits 0-4 and 7
LowBytes == { l + 128 * h : l \in 0..31, h \in 0..1 }

RotAddresses == { l + 256 * h : l \in LowBytes, h \in HighWordsUpTo(MaxHighBits) }

\* high address words for decrypt: none and all of the bits, and for every trigger
\* its mask, its match and the mask bits its match wants clear
KeyHighWords ==
    {0, 65535} \cup
    UNION { {triggers_init[n][1], triggers_init[n][2],
             BitXor(triggers_init[n][1], triggers_init[n][2])} : n \in 1..16 }

\* low address bytes for decrypt: every value of bits 0-4 and 7, and some with
\* bits 5 and 6 set as well
KeyLowBytes == LowBytes \cup { l + 32 * m : l \in {0, 1, 6, 159}, m \in 1..3 }

KeyAddresses == { l + 256 * h : l \in KeyLowBytes, h \in KeyHighWords }

CipherWords == {0, 65535, 4660, 32769}

RolWords == {0, 1, 32768, 65535, 4660, 42435, 255, 65280}

RomWords == {0, 65535, 4660, 32769}

SmallWords == {0, 4660}
SmallAddresses == {0, 1, 258, 4194559}

\* the regions a caller may hand over: up to MaxWords words, with or without a
\* trailing odd byte
RECURSIVE SeqsUpTo(_, _)
SeqsUpTo(S, n) ==
    IF n = 0 THEN {<<>>}
    ELSE LET P == SeqsUpTo(S, n - 1)
         IN  P \cup { Append(s, x) : <<s, x>> \in { p \in P \X S : Len(p[1]) = n - 1 } }

Workers == 1..NumWorkers

----------------------------------------------------------------------------
(* State machine *)

NoCall == [fn |-> "none", done |-> TRUE]

DecryptCalls(C, A) ==
    { [fn |-> "decrypt", cipherword |-> c, word_address |-> a, done |-> FALSE, ret |-> 0] :
        c \in C, a \in A }
RotationCalls(A) ==
    { [fn |-> "rotation", address |-> a, done |-> FALSE, ret |-> 0] : a \in A }
RolCalls(N, S) ==
    { [fn |-> "rol", num |-> n, shift |-> s, done |-> FALSE, ret |-> 0] : n \in N, s \in S }

\* igs036_decryptor(game_key): the key is bound, and the caller is about to make
\* one of the calls of Calls (NoCall: none yet)
Construct(K, Calls) ==
    /\ key \in K
    /\ triggers = triggers_init
    /\ rot_enabling = rot_enabling_init
    /\ rot_direction = rot_direction_init
    /\ call \in Calls
    /\ first = NoCall
    /\ pc = "idle"
    /\ rom = <<>>
    /\ rom0 = <<>>
    /\ size = 0
    /\ i = 0
    /\ hits = <<>>
    /\ pending = {}
    /\ wk = [w \in Workers |-> [st |-> "idle", idx |-> 0, val |-> 0]]
    /\ written = <<>>

Init == Construct(KeySet, {NoCall})

tables == <<key, triggers, rot_enabling, rot_direction>>
romvars == <<pc, rom, rom0, size, i, hits>>
parvars == <<pending, wk, written>>

\* the caller invokes decrypt(c, a)
InvokeDecrypt(c, a) ==
    /\ pc = "idle"
    /\ call.done
    /\ call' \in DecryptCalls({c}, {a})
    /\ UNCHANGED <<tables, first, romvars, parvars>>

\* mutant: decrypt uses the key entry it read as scratch space for its result
DecryptScratch ==
    /\ pc = "idle"
    /\ call.fn = "decrypt"
    /\ ~call.done
    /\ call' = [call EXCEPT !.done = TRUE,
                            !.ret = decrypt(call.cipherword, call.word_address)]
    /\ key' = [key EXCEPT ![key_index(call.word_address) + 1] = call'.ret]
    /\ first' = IF first.fn = "none"
                THEN [fn |-> "decrypt", cipherword |-> call.cipherword,
                      word_address |-> call.word_address, ret |-> call'.ret,
                      romAfter |-> FALSE, again |-> FALSE]
                ELSE first
    /\ UNCHANGED <<triggers, rot_enabling, rot_direction, romvars, parvars>>

\* decrypt runs and returns
Decrypt ==
    /\ pc = "idle"
    /\ call.fn = "decrypt"
    /\ ~call.done
    /\ call' = [call EXCEPT !.done = TRUE,
                            !.ret = decrypt(call.cipherword, call.word_address)]
    /\ first' = IF first.fn = "none"
                THEN [fn |-> "decrypt", cipherword |-> call.cipherword,
                      word_address |-> call.word_address, ret |-> call'.ret,
                      romAfter |-> FALSE, again |-> FALSE]
                ELSE IF /\ call.cipherword = first.cipherword
                        /\ call.word_address = first.word_address
                     THEN [first EXCEPT !.again = @ \/ first.romAfter]
                     ELSE first
    /\ UNCHANGED <<tables, romvars, parvars>>

\* rotation runs and returns
Rotation ==
    /\ call.fn = "rotation"
    /\ ~call.done
    /\ call' = [call EXCEPT !.done = TRUE, !.ret = rotation(call.address)]
    /\ UNCHANGED <<tables, first, romvars, parvars>>

\* rol runs and returns
Rol ==
    /\ call.fn = "rol"
    /\ ~call.done
    /\ call' = [call EXCEPT !.done = TRUE, !.ret = rol(call.num, call.shift)]
    /\ UNCHANGED <<tables, first, romvars, parvars>>

\* decrypter_rom(region) up to the first test of the loop condition
RomEnter(words, bytes) ==
    /\ pc = "idle"
    /\ call.done
    /\ pc' = "rom"
    /\ rom' = words
    /\ rom0' = words
    /\ size' = bytes
    /\ i' = 0
    /\ hits' = [k \in 1..Len(words) |-> 0]
    /\ UNCHANGED <<tables, call, first, parvars>>

\* one iteration: rom[i] = decrypt(rom[i], i); i++
RomStep ==
    /\ pc = "rom"
    /\ i < decrypter_rom_count(size)
    /\ rom' = decrypter_rom_body(rom, i)
    /\ hits' = [hits EXCEPT ![i + 1] = @ + 1]
    /\ i' = i + 1
    /\ UNCHANGED <<tables, call, first, pc, rom0, size, parvars>>

\* the loop condition fails: decrypter_rom returns
RomExit ==
    /\ pc = "rom"
    /\ ~(i < decrypter_rom_count(size))
    /\ pc' = "idle"
    /\ first' = IF first.fn = "decrypt" THEN [first EXCEPT !.romAfter = TRUE] ELSE first
    /\ UNCHANGED <<tables, call, rom, rom0, size, i, hits, parvars>>

\* the parallel map of the design: a region is handed to the workers
ParEnter(words) ==
    /\ pc = "idle"
    /\ pc' = "par"
    /\ rom' = words
    /\ rom0' = words
    /\ size' = 2 * Len(words)
    /\ pending' = 0..(Len(words) - 1)
    /\ written' = <<>>
    /\ UNCHANGED <<tables, call, first, i, hits, wk>>

\* worker w takes an index nobody has taken
ParTake(w, n) ==
    /\ pc = "par"
    /\ wk[w].st = "idle"
    /\ n \in pending
    /\ pending' = pending \ {n}
    /\ wk' = [wk EXCEPT ![w] = [st |-> "taken", idx |-> n, val |-> 0]]
    /\ UNCHANGED <<tables, call, first, romvars, written>>

\* worker w computes decrypt(rom[idx], idx)
ParCompute(w) ==
    /\ pc = "par"
    /\ wk[w].st = "taken"
    /\ wk' = [wk EXCEPT ![w] = [@ EXCEPT !.st = "computed",
                                         !.val = decrypter_rom_word(rom, wk[w].idx)]]
    /\ UNCHANGED <<tables, call, first, romvars, pending, written>>

\* worker w writes its slot
ParWrite(w) ==
    /\ pc = "par"
    /\ wk[w].st = "computed"
    /\ rom' = [rom EXCEPT ![wk[w].idx + 1] = wk[w].val]
    /\ wk' = [wk EXCEPT ![w] = [st |-> "idle", idx |-> 0, val |-> 0]]
    /\ written' = Append(written, wk[w].idx)
    /\ UNCHANGED <<tables, call, first, pc, rom0, size, i, hits, pending>>

\* every index is written and every worker is idle: the map returns
ParExit ==
    /\ pc = "par"
    /\ pending = {}
    /\ \A w \in Workers : wk[w].st = "idle"
    /\ pc' = "done"
    /\ UNCHANGED <<tables, call, first, rom, rom0, size, i, hits, parvars>>

\* The decryptor in use: any sequence of decrypt and decrypter_rom calls.
Next ==
    \/ \E c \in SmallWords, a \in SmallAddresses : InvokeDecrypt(c, a)
    \/ Decrypt
    \/ \E ws \in SeqsUpTo(SmallWords, MaxWords), odd \in 0..1 : RomEnter(ws, 2 * Len(ws) + odd)
    \/ RomStep
    \/ RomExit

Spec == Init /\ [][Next]_vars

\* decrypt over the sampled address space
NextDecrypt == Decrypt

SpecDecrypt ==
    Construct(KeySet, DecryptCalls(CipherWords, KeyAddresses)) /\ [][NextDecrypt]_vars

\* rotation and rol over the sampled address space
NextRotation ==
    \/ Rotation
    \/ Rol

SpecRotation ==
    Construct({zero_key}, RotationCalls(RotAddresses) \cup RolCalls(RolWords, 0..15))
        /\ [][NextRotation]_vars

\* decrypter_rom alone
NextRom ==
    \/ \E ws \in SeqsUpTo(RomWords, MaxWords), odd \in 0..1 : RomEnter(ws, 2 * Len(ws) + odd)
    \/ RomStep
    \/ RomExit

SpecRom == Init /\ [][NextRom]_vars

\* the parallel map
NextPar ==
    \/ \E ws \in SeqsUpTo(SmallWords, MaxWords) : ParEnter(ws)
    \/ \E w \in Workers, n \in 0..(MaxWords - 1) : ParTake(w, n)
    \/ \E w \in Workers : ParCompute(w)
    \/ \E w \in Workers : ParWrite(w)
    \/ ParExit

SpecPar == Construct({orleg2_key}, {NoCall}) /\ [][NextPar]_vars

----------------------------------------------------------------------------
(* Reference notions used to state the properties *)

\* the 16-bit value whose bit n is b[n + 1]
RECURSIVE FromBits(_, _)
FromBits(b, n) == IF n >= 16 THEN 0 ELSE b[n + 1] * (2^n) + FromBits(b, n + 1)

\* 16-bit rotations by s places, bit by bit
RotateLeft16(v, s)  == FromBits([n \in 1..16 |-> BIT(v, ((n - 1) + 16 - s) % 16)], 0)
RotateRight16(v, s) == FromBits([n \in 1..16 |-> BIT(v, ((n - 1) + s) % 16)], 0)

\* the fixed permutation as designed: output bits 15..0 come from these input bits
DesignedPermutation == <<10, 9, 8, 7, 0, 15, 6, 5, 14, 13, 4, 3, 12, 11, 2, 1>>

\* its inverse: input bit DesignedPermutation[k] comes back from output bit 16-k
DesignedInverse ==
    [n \in 1..16 |-> 16 - (CHOOSE k \in 1..16 : DesignedPermutation[k] = n - 1)]
InversePermute(v) == FromBits([n \in 1..16 |-> BIT(v, DesignedInverse[n])], 0)

\* (high & mask) == match, bit by bit
MaskedEquals(high, mask, match) ==
    \A b \in 0..15 : BIT(match, b) = BIT(high, b) * BIT(mask, b)

\* bit n of M(a): the key enables XOR n at a's low byte and trigger n matches
\* a's high word
MBit(a, n) ==
    IF /\ BIT(key[(a % 256) + 1], n) = 1
       /\ MaskedEquals(a \div 256, triggers[n + 1][1], triggers[n + 1][2])
    THEN 1 ELSE 0

DecryptDone == call.fn = "decrypt" /\ call.done
RotationDone == call.fn = "rotation" /\ call.done
RolDone == call.fn = "rol" /\ call.done

Groups == {group15, group14, group13, group12}

----------------------------------------------------------------------------
(* Properties *)

\* C1: decrypt(c, a) = deobfuscate(c, a) XOR M(a) XOR 0x1A3A, bit i of M(a)
\* being set exactly when key[a & 0xFF] has bit i and trigger i matches a >> 8;
\* with a zero key entry the result is deobfuscate(c, a) XOR 0x1A3A.
C1_DecryptIsKeyedXor ==
    DecryptDone =>
        LET c == call.cipherword
            a == call.word_address
            d == deobfuscate(c, a)
        IN  /\ call.ret \in 0..65535
            /\ \A n \in 0..15 :
                 BIT(call.ret, n) = (BIT(d, n) + MBit(a, n) + BIT(6714, n)) % 2
            /\ key[(a % 256) + 1] = 0 => call.ret = BitXor(d, 6714)

\* C1 witness: a decrypt whose key entry enables one XOR whose trigger matches
\* and another whose trigger does not
C1_Witness ==
    /\ DecryptDone
    /\ \E n, m \in 0..15 :
         /\ BIT(key[(call.word_address % 256) + 1], n) = 1
         /\ BIT(key[(call.word_address % 256) + 1], m) = 1
         /\ MBit(call.word_address, n) = 1
         /\ MBit(call.word_address, m) = 0
    /\ call.ret # BitXor(deobfuscate(call.cipherword, call.word_address), 6714)

\* C2: for a fixed address deobfuscate and decrypt are injective on the 16-bit
\* words, and the inverse permutation followed by a rotate-right by
\* rotation(a) takes deobfuscate(w, a) back to w.
C2_Bijective ==
    DecryptDone =>
        LET c == call.cipherword
            a == call.word_address
            d == deobfuscate(c, a)
        IN  /\ d \in 0..65535
            /\ RotateRight16(InversePermute(d), rotation(a)) = c
            /\ \A c2 \in { w \in CipherWords : w > c } :
                 /\ deobfuscate(c2, a) # d
                 /\ decrypt(c2, a) # call.ret

\* C2 witness: a word that a non-zero rotation and the permutation really move
C2_Witness ==
    /\ DecryptDone
    /\ rotation(call.word_address) = 7
    /\ call.cipherword = 4660
    /\ deobfuscate(call.cipherword, call.word_address) # call.cipherword

\* C3: rotation(address) is in 0..15 and is the non-negative residue modulo 16
\* of group_sum + rot2, also when the sum is negative; group_sum lies in
\* -16..16 and rot2 in -9..11.
C3_RotationRange ==
    RotationDone =>
        LET rot  == rotation_rot(call.address)
            rot2 == rotation_rot2(call.address)
        IN  /\ call.ret \in 0..15
            /\ rot \in (-16)..16
            /\ rot2 \in (-9)..11
            /\ \E q \in (-2)..1 : rot + rot2 = 16 * q + call.ret

\* C3 witness: a rotation whose signed sum is negative
C3_Witness ==
    /\ RotationDone
    /\ rotation_rot(call.address) + rotation_rot2(call.address) < 0
    /\ rotation_rot(call.address) < 0
    /\ call.ret > 0

\* C4: while and after decrypter_rom runs over N words, every index below the
\* loop variable holds decrypt(original word, index), every other word is
\* untouched, each word has been written exactly once, and on return all N
\* words are done; the address of a word is its index, the first being 0.
C4_RegionTransform ==
    (pc \in {"rom", "idle"}) =>
        /\ Len(rom) = Len(rom0)
        /\ i \in 0..Len(rom0)
        /\ \A k \in 0..(Len(rom0) - 1) :
             IF k < i
             THEN rom[k + 1] = decrypt(rom0[k + 1], k) /\ hits[k + 1] = 1
             ELSE rom[k + 1] = rom0[k + 1] /\ hits[k + 1] = 0
        /\ pc = "idle" => i = Len(rom0)

\* C4 witness: decrypter_rom has returned from a region of three different words
C4_Witness ==
    /\ pc = "idle"
    /\ Len(rom0) = 3
    /\ i = 3
    /\ rom0[1] # rom0[2] /\ rom0[2] # rom0[3]
    /\ \A k \in 1..3 : rom[k] # rom0[k]

\* C5: when the per-index steps are run by workers in any order and
\* interleaving, each index once and each worker writing its own slot, the
\* final buffer is the one the sequential pass produces; meanwhile every slot
\* holds either its original or its final word.
C5_ParallelEqualsSequential ==
    (pc \in {"par", "done"}) =>
        LET seq == decrypter_rom_loop(rom0, size, 0)
        IN  /\ Len(rom) = Len(rom0)
            /\ \A k \in 1..Len(rom0) : rom[k] \in {rom0[k], seq[k]}
            /\ pc = "done" => rom = seq

\* C5 witness: the parallel map has finished a region of three words, the last
\* of which was written before the first
C5_Witness ==
    /\ pc = "done"
    /\ Len(rom0) = 3
    /\ rom # rom0
    /\ written = <<2, 1, 0>>

\* C6: decrypt is total: every call returns a 16-bit word, the key index is in 0..255, the
\* trigger table has the 16 entries the loop indexes, the rot_enabling indices
\* are in 0..15 x 0..3, the rot_direction indices in 0..3 x 0..7, and both
\* shift counts of rol are in 0..16.
C6_Total ==
    DecryptDone =>
        LET a == call.word_address
            shift == rotation(a)
        IN  /\ call.ret \in 0..65535
            /\ key_index(a) \in 0..255
            /\ DOMAIN key = 1..256
            /\ DOMAIN triggers = 1..16
            /\ \A g \in Groups :
                 /\ \A j \in 1..4 :
                      /\ rot_enabling_index(a, g[j])[1] \in 0..15
                      /\ rot_enabling_index(a, g[j])[2] \in 0..3
                 /\ rot_direction_index(a, g)[1] \in 0..3
                 /\ rot_direction_index(a, g)[2] \in 0..7
            /\ shift \in 0..15
            /\ rol_lshift(shift) \in 0..16
            /\ rol_rshift(shift) \in 0..16

\* C6 witness: a decrypt at an address with all 24 bits set has returned
C6_Witness ==
    /\ DecryptDone
    /\ call.word_address = 16777215
    /\ call.ret \in 0..65535

\* C7: the decryptor is stateless beyond its key binding: no call changes the
\* key table, the trigger table or a dispatch table, and a decrypt of the
\* arguments of the first decrypt returns what the first one returned,
\* whatever was called in between.
C7_Stateless ==
    [][ /\ key' = key
        /\ triggers' = triggers
        /\ rot_enabling' = rot_enabling
        /\ rot_direction' = rot_direction
        /\ (/\ call'.fn = "decrypt" /\ call'.done
            /\ first'.fn = "decrypt"
            /\ call'.cipherword = first'.cipherword
            /\ call'.word_address = first'.word_address)
           => call'.ret = first'.ret ]_vars

\* C7 witness: the arguments of the first decrypt have been decrypted again
\* after decrypter_rom ran over a region
C7_Witness ==
    /\ DecryptDone
    /\ first.fn = "decrypt"
    /\ first.again
    /\ first.romAfter
    /\ call.cipherword = first.cipherword
    /\ call.word_address = first.word_address
    /\ call.word_address > 65535

\* C8: at word address 0 with key[0] = 0: rotation(0) = 0, deobfuscate(0, 0) = 0,
\* deobfuscate(0xFFFF, 0) = 0xFFFF, decrypt(0, 0) = 0x1A3A and
\* decrypt(0xFFFF, 0) = 0xE5C5.
C8_AddressZero ==
    (DecryptDone /\ call.word_address = 0 /\ key[1] = 0) =>
        /\ rotation(0) = 0
        /\ deobfuscate(0, 0) = 0
        /\ deobfuscate(65535, 0) = 65535
        /\ call.cipherword = 0 => call.ret = 6714
        /\ call.cipherword = 65535 => call.ret = 58821

\* C8 witness: decrypt(0xFFFF, 0) has returned under a key whose entry 0 is 0
C8_Witness ==
    /\ DecryptDone
    /\ call.word_address = 0
    /\ key[1] = 0
    /\ call.cipherword = 65535
    /\ call.ret = 58821

\* C9: for shift in 0..15, rol(num, shift) is the 16-bit left rotation of num:
\* bit n of the result is bit (n - shift) mod 16 of num; rol(num, 0) = num,
\* the right shift by 16 contributing 0.
C9_RolIsRotation ==
    RolDone =>
        /\ call.ret \in 0..65535
        /\ \A n \in 0..15 : BIT(call.ret, n) = BIT(call.num, (n + 16 - call.shift) % 16)
        /\ call.shift = 0 =>
             /\ call.ret = call.num
             /\ rol_rshift(call.shift) = 16
             /\ call.num \div (2^rol_rshift(call.shift)) = 0

\* C9 witness: the top bit has wrapped around to the bottom
C9_Witness ==
    /\ RolDone
    /\ call.num = 32768
    /\ call.shift = 1
    /\ call.ret = 1

\* the group positions whose address bit 8+pos is set, by place in the group
SetPlaces(a, g) == { j \in 1..4 : BIT(a, 8 + g[j]) = 1 }
FirstPlace(a, g) == CHOOSE j \in SetPlaces(a, g) : \A k \in SetPlaces(a, g) : j <= k
Probe(a) == IF BIT(a, 2) = 1 THEN BitXor(a, 27) ELSE a
\* a with the bits of g after the first set one cleared
OnlyFirst(a, g) ==
    LET later == { j \in SetPlaces(a, g) : j # FirstPlace(a, g) }
    IN  (a % 256) + 256 * FromBits([n \in 1..16 |->
                                       IF \E j \in later : g[j] = n - 1
                                       THEN 0 ELSE BIT(a, 8 + (n - 1))], 0)

\* C10: rot_enabled uses only the first position of the group, in array order,
\* whose address bit 8+pos is set: it returns rot_enabling[pos][probe & 3](probe)
\* with probe = address XOR 0x1B if address bit 2 is set and address otherwise;
\* later set bits are not consulted; with no bit set the result is 0; the
\* result is 0 or 1.
C10_RotEnabledFirstBit ==
    RotationDone =>
        \A g \in Groups :
            LET a == call.address
                r == rot_enabled(a, g)
            IN  /\ r \in {0, 1}
                /\ IF SetPlaces(a, g) = {}
                   THEN r = 0
                   ELSE /\ r = CallFn(rot_enabling[g[FirstPlace(a, g)] + 1][(Probe(a) % 4) + 1],
                                      Probe(a))
                        /\ r = rot_enabled(OnlyFirst(a, g), g)

\* C10 witness: two bits of a group are set and the functions of the two
\* positions disagree, the first one giving the result
C10_Witness ==
    /\ RotationDone
    /\ \E g \in Groups :
         /\ SetPlaces(call.address, g) = {1, 3} \/ SetPlaces(call.address, g) = {2, 4}
         /\ LET a  == call.address
                p1 == g[FirstPlace(a, g)]
                p2 == g[FirstPlace(a, g) + 2]
                f1 == CallFn(rot_enabling[p1 + 1][(Probe(a) % 4) + 1], Probe(a))
                f2 == CallFn(rot_enabling[p2 + 1][(Probe(a) % 4) + 1], Probe(a))
            IN  f1 # f2 /\ rot_enabled(a, g) = f1 /\ f1 = 1

\* the groups of rotation with their weights, group0 first
GroupOf == <<group15, group14, group13, group12>>
WeightOf == <<9, 1, 2, 4>>

\* whether group k (1..4, group0 being k = 1) rotates at address a
GroupEnabled(a, k) ==
    IF k = 1
    THEN rot_enabled(a, GroupOf[1]) = 1
    ELSE (rot_enabled(a, GroupOf[1]) = 1) # (rot_enabled(a, GroupOf[k]) = 1)

\* C11: group0 is enabled iff its own determination is 1 and every other
\* group iff its own determination differs from group0's; an enabled group
\* adds +weight or -weight (9, 1, 2, 4) and a disabled one adds 0, so that
\* the rotation returned is the sum of these and rot2, modulo 16.
C11_GroupZeroInverts ==
    RotationDone =>
        LET a == call.address
            contribution == [k \in 1..4 |->
                               IF GroupEnabled(a, k)
                               THEN rot_group(a, GroupOf[k]) * WeightOf[k]
                               ELSE 0]
            total == contribution[1] + contribution[2] + contribution[3] + contribution[4]
        IN  /\ \A k \in 1..4 :
                 IF GroupEnabled(a, k)
                 THEN contribution[k] \in {WeightOf[k], 0 - WeightOf[k]}
                 ELSE contribution[k] = 0
            /\ rotation_rot(a) = total
            /\ \E q \in (-2)..1 : total + rotation_rot2(a) = 16 * q + call.ret

\* C11 witness: group0 is enabled, a group with no high bit set rotates all the
\* same, and a group whose own determination is 1 does not
C11_Witness ==
    /\ RotationDone
    /\ rot_enabled(call.address, group15) = 1
    /\ \E k, n \in 2..4 :
         /\ SetPlaces(call.address, GroupOf[k]) = {}
         /\ GroupEnabled(call.address, k)
         /\ rot_enabled(call.address, GroupOf[n]) = 1
         /\ ~GroupEnabled(call.address, n)
    /\ rotation_rot(call.address) # 0

\* C12: rot_group(address, group) is 2*r - 1 with
\* r = rot_direction[group_id][address & 7](address) and group_id the first
\* member of the group modulo 4, hence -1 or +1; group {15,11,7,5} uses row 3,
\* {14,9,3,2} row 2, {13,10,6,1} row 1 and {12,8,4,0} row 0, each row being
\* used by exactly one group.
C12_RotGroupDirection ==
    RotationDone =>
        LET a == call.address
            row == [k \in 1..4 |-> rot_direction_index(a, GroupOf[k])[1]]
        IN  /\ \A k \in 1..4 :
                 /\ row[k] = GroupOf[k][1] % 4
                 /\ rot_direction_index(a, GroupOf[k])[2] = a % 8
                 /\ rot_group(a, GroupOf[k]) =
                      2 * CallFn(rot_direction[(GroupOf[k][1] % 4) + 1][(a % 8) + 1], a) - 1
                 /\ rot_group(a, GroupOf[k]) \in {-1, 1}
            /\ row = <<3, 2, 1, 0>>
            /\ \A r \in 0..3 : Cardinality({ k \in 1..4 : row[k] = r }) = 1

\* C12 witness: the four groups rotate in directions that only their own rows
\* give: rows 3 and 0 disagree at this address, and so do rows 2 and 1
C12_Witness ==
    /\ RotationDone
    /\ rot_group(call.address, group15) = 1
    /\ rot_group(call.address, group12) = -1
    /\ rot_group(call.address, group14) = 1
    /\ rot_group(call.address, group13) = -1
    /\ CallFn(rot_direction[4][(call.address % 8) + 1], call.address) = 1
    /\ CallFn(rot_direction[1][(call.address % 8) + 1], call.address) = 0

\* C13: the rot_enabling rows of positions 14 and 15 are the function
\* unknown, which always returns 0; hence rot_enabled(address, {15,11,7,5}) is 0
\* for every address with bit 23 set and rot_enabled(address, {14,9,3,2}) is 0
\* for every address with bit 22 set.
C13_UnknownRowsDisable ==
    RotationDone =>
        LET a == call.address
        IN  /\ \A pos \in {14, 15} : \A s \in 1..4 :
                 /\ rot_enabling[pos + 1][s] = "unknown"
                 /\ CallFn(rot_enabling[pos + 1][s], a) = 0
                 /\ CallFn(rot_enabling[pos + 1][s], Probe(a)) = 0
            /\ BIT(a, 23) = 1 => rot_enabled(a, group15) = 0
            /\ BIT(a, 22) = 1 => rot_enabled(a, group14) = 0

\* C13 witness: bit 23 is set together with a later bit of the group whose own
\* row would enable the group, and the group is not enabled
C13_Witness ==
    /\ RotationDone
    /\ BIT(call.address, 23) = 1
    /\ BIT(call.address, 8 + 11) = 1
    /\ CallFn(rot_enabling[11 + 1][(Probe(call.address) % 4) + 1], Probe(call.address)) = 1
    /\ rot_enabled(call.address, group15) = 0

AllEqual(x, y, z) == x = y /\ x = z

\* the address masks of bits 5 and 6
Bit5And6 == {32, 64}

\* C14: the key-independent layer does not read bits 5 and 6 of the address:
\* rotation(a) = rotation(a XOR 0x20) = rotation(a XOR 0x40) and
\* deobfuscate(c, a) = deobfuscate(c, a XOR 0x20) = deobfuscate(c, a XOR 0x40);
\* these bits reach decrypt only through the key index a & 0xFF: when the key
\* words of the two addresses are equal the decrypted words are equal, and
\* otherwise the decrypted word at the flipped address is the key layer of the
\* flipped address's key word over the same deobfuscated word.
C14_Bits5And6OnlyKeyIndex ==
    DecryptDone =>
        LET a == call.word_address
            c == call.cipherword
        IN  /\ AllEqual(rotation(a), rotation(BitXor(a, 32)), rotation(BitXor(a, 64)))
            /\ AllEqual(deobfuscate(c, a), deobfuscate(c, BitXor(a, 32)),
                        deobfuscate(c, BitXor(a, 64)))
            /\ \A m \in Bit5And6 :
                 /\ key_index(BitXor(a, m)) = BitXor(key_index(a), m)
                 /\ decrypt(c, BitXor(a, m)) =
                      IF key[key_index(BitXor(a, m)) + 1] = key[key_index(a) + 1]
                      THEN call.ret
                      ELSE decrypt_final(decrypt_loop(deobfuscate(c, a),
                                                      key[key_index(BitXor(a, m)) + 1],
                                                      a \div 256, 0))

\* C14 witness: at an address with bit 5 set and a non-zero rotation, flipping
\* bit 5 leaves the deobfuscated word alone and changes the decrypted word,
\* the two key words being different
C14_Witness ==
    /\ DecryptDone
    /\ BIT(call.word_address, 5) = 1
    /\ BIT(call.word_address, 6) = 1
    /\ call.cipherword = 4660
    /\ rotation(call.word_address) # 0
    /\ deobfuscate(call.cipherword, BitXor(call.word_address, 32))
         = deobfuscate(call.cipherword, call.word_address)
    /\ key[key_index(BitXor(call.word_address, 32)) + 1] # key[key_index(call.word_address) + 1]
    /\ decrypt(call.cipherword, BitXor(call.word_address, 32)) # call.ret

====
